---------------------------- MODULE Spec2Model ----------------------------
(***************************************************************************)
(* Model of vscode-task-view.  src/src/taskOrganizer.ts: the classifier     *)
(* organizeTasks and the status deriver createTaskStatuses, as they        *)
(* execute on a JavaScript engine.  src/src/taskViewProvider.ts: the view  *)
(* provider, its refreshes, its listeners and its command handler.         *)
(*                                                                         *)
(* JavaScript values are tagged records: Undefined, Null, JsString(s) and  *)
(* TaskGroupObj(id).  A plain object created by the literal {} is a        *)
(* function from its own keys to values; a property READ on it also sees   *)
(* the keys inherited from Object.prototype, and an ASSIGNMENT to the key  *)
(* "__proto__" runs the inherited setter instead of creating a key.        *)
(* Arrays are sequences.  A call that raises a TypeError yields Threw.     *)
(***************************************************************************)
EXTENDS Integers, Sequences, FiniteSets, TLC

\* tasks, executions: the lists the host supplies; organized, statuses: the
\* outcome of the latest call of organizeTasks and of createTaskStatuses;
\* calls: the number of calls made when calls are repeated.
VARIABLES tasks, executions, organized, statuses, calls

\* The view provider (taskViewProvider.ts) and the host around it.
\* webviewView: this._webviewView is set; listening: setupEventListeners has
\* registered the listeners; pollInterval: this._pollInterval; disposeCalled:
\* dispose() has been called; disposedDisposables: the entries of
\* this._disposables whose dispose() has run; settings: the taskView
\* configuration of the host; refreshes: the refreshTasks invocations in
\* flight, by slot; timers: the queue of the pending setTimeout callbacks;
\* html: webview.html; lastRender: the snapshot and the configuration of the
\* refresh whose callback assigned webview.html last; watch: the fate of one
\* task start or end event singled out; unhandled: an exception has left a
\* callback without being caught.
VARIABLES webviewView, listening, pollInterval, disposeCalled,
          disposedDisposables, settings, refreshes, timers, html,
          lastRender, watch, unhandled

\* The messages of the webview and their handling.  pendingMessage: the
\* message posted and not yet received; handler: where handleWebviewMessage
\* stands; click: the button clicked last and the Shift key; executed:
\* the tasks started through vscode.tasks.executeTask, terminated: the
\* executions terminated, dialogs: the modal dialogs shown with their
\* answers, groupRuns: the calls of executeGroupRun, notices: the error and
\* information messages shown, all since that click.
VARIABLES pendingMessage, handler, click, executed, terminated, dialogs,
          groupRuns, notices

commandVars ==
    <<pendingMessage, handler, click, executed, terminated, dialogs,
      groupRuns, notices>>

providerVars ==
    <<webviewView, listening, pollInterval, disposeCalled,
      disposedDisposables, settings, refreshes, timers, html,
      lastRender, watch, unhandled>>

vars ==
    <<tasks, executions, organized, statuses, calls, providerVars, commandVars>>

-----------------------------------------------------------------------------
(* Bounds of the model. *)

MaxTasks == 3
MaxExecutions == 2
MaxRepeatTasks == 2
MaxCalls == 3
MaxInFlight == 2
MaxRunning == 1
MaxActive == 2

-----------------------------------------------------------------------------
(* JavaScript values. *)

Undefined == [type |-> "undefined"]
Null == [type |-> "null"]
JsString(s) == [type |-> "string", val |-> s]
TaskGroupObj(id) == [type |-> "object", id |-> id]

\* ToBoolean: undefined, null and "" are falsy; objects and other strings truthy.
Truthy(v) ==
    CASE v.type = "undefined" -> FALSE
      [] v.type = "null" -> FALSE
      [] v.type = "string" -> v.val # ""
      [] OTHER -> TRUE

\* The property names every object literal inherits from Object.prototype.
\* Each inherited value is a function or an object: truthy, and without the
\* properties tasks, subGroups and push.
ObjectPrototypeKeys ==
    {"constructor", "toString", "toLocaleString", "valueOf", "hasOwnProperty",
     "isPrototypeOf", "propertyIsEnumerable", "__proto__", "__defineGetter__",
     "__defineSetter__", "__lookupGetter__", "__lookupSetter__"}

\* The object literal {}.
EmptyObject == [k \in {} |-> Undefined]

\* The own keys of an object (Object.keys).
OwnKeys(obj) == DOMAIN obj

\* obj[key] read: where the value comes from.
JsLookup(obj, key) ==
    IF key \in DOMAIN obj THEN "own"
    ELSE IF key \in ObjectPrototypeKeys THEN "inherited"
    ELSE "undefined"

\* obj[key] = value on an object literal: the inherited "__proto__" setter
\* ignores a value that is neither an object nor null and creates no key; any
\* other key becomes (or stays) an own key.
JsAssignPrimitive(obj, key, value) ==
    IF key = "__proto__" THEN obj
    ELSE [k \in DOMAIN obj \cup {key} |-> IF k = key THEN value ELSE obj[k]]

\* obj[key] = value where value is an object or array, on a key that is not
\* inherited (the code assigns only after a falsy read of obj[key]).
JsAssignObject(obj, key, value) ==
    [k \in DOMAIN obj \cup {key} |-> IF k = key THEN value ELSE obj[k]]

\* Faulty variant of Push: the item is put in front (unshift).
Unshift(array, item) == <<item>> \o array

\* Array.prototype.push.
Push(array, item) == Append(array, item)

\* Outcome of a call: a returned value, or a thrown TypeError.
Returned(v) == [kind |-> "returned", value |-> v]
Threw == [kind |-> "threw"]
Pending == [kind |-> "pending"]

-----------------------------------------------------------------------------
(* taskOrganizer.ts: the classifier. *)

\* A task descriptor: name is a string; source is Undefined or a JsString;
\* group is Undefined, a JsString or a TaskGroupObj whose id is Undefined or a
\* JsString.
Task(name, source, group) == [name |-> name, source |-> source, group |-> group]

\* The TaskGroup literal { tasks: [], subGroups: {} }.
NewTaskGroup == [tasks |-> <<>>, subGroups |-> EmptyObject]

\* Faulty variant of isWorkspaceTask: only an absent source counts as missing.
isWorkspaceTaskAbsentOnly(task) ==
    task.source = JsString("Workspace") \/ task.source = Undefined

\* Faulty variant of isWorkspaceTask: the sentinel is compared ignoring case.
isWorkspaceTaskIgnoreCase(task) ==
    task.source \in {JsString("Workspace"), JsString("workspace")}
        \/ ~Truthy(task.source)

\* return task.source === 'Workspace' || !task.source;
isWorkspaceTask(task) ==
    task.source = JsString("Workspace") \/ ~Truthy(task.source)

\* Faulty variant of extractTaskGroupName: an empty string counts as a group
\* name (only an absent group yields null, only an absent id yields 'build').
extractTaskGroupNameEmptyKept(task) ==
    IF task.group.type \in {"undefined", "null"} THEN Null
    ELSE IF task.group.type = "string" THEN task.group
    ELSE IF task.group.id.type = "string" THEN task.group.id
    ELSE JsString("build")

\* Faulty variant of extractTaskGroupName: no typeof test, so a string group is
\* read through .id like a structured one.
extractTaskGroupNameNoStringCase(task) ==
    IF ~Truthy(task.group) THEN Null
    ELSE IF task.group.type = "object" /\ Truthy(task.group.id) THEN task.group.id
    ELSE JsString("build")

\* Faulty variant of extractTaskGroupName: the 'build' default is missing.
extractTaskGroupNameNoDefault(task) ==
    IF ~Truthy(task.group) THEN Null
    ELSE IF task.group.type = "string" THEN task.group
    ELSE task.group.id

\* extractTaskGroupName: null, the string itself, or group.id || 'build'.
extractTaskGroupName(task) ==
    IF ~Truthy(task.group) THEN Null
    ELSE IF task.group.type = "string" THEN task.group
    ELSE IF Truthy(task.group.id) THEN task.group.id
    ELSE JsString("build")

\* const source = task.source || 'Unknown';
effectiveSource(task) ==
    IF Truthy(task.source) THEN task.source.val ELSE "Unknown"

\* if (!sourceGroups[source]) { sourceGroups[source] = {tasks: [], subGroups: {}} }
\* An inherited key reads truthy, so nothing is created for it.
initSourceGroup(sourceGroups, source) ==
    IF JsLookup(sourceGroups, source) = "undefined"
    THEN JsAssignObject(sourceGroups, source, NewTaskGroup)
    ELSE sourceGroups

\* if (!subGroups[name]) { subGroups[name] = [] }
initSubGroup(subGroups, name) ==
    IF JsLookup(subGroups, name) = "undefined"
    THEN JsAssignObject(subGroups, name, <<>>)
    ELSE subGroups

\* organizeProviderTask(task, sourceGroups): the sourceGroups object after the
\* call, or Threw.  sourceGroups[source] read from an inherited key is a
\* built-in without tasks and subGroups, so the next member access throws;
\* subGroups[name] read from an inherited key is a built-in without push, so
\* the call of push throws.
organizeProviderTask(task, sourceGroups) ==
    LET source == effectiveSource(task)
        created == initSourceGroup(sourceGroups, source)
        taskGroupName == extractTaskGroupName(task)
    IN  IF JsLookup(created, source) = "inherited" THEN Threw
        ELSE IF Truthy(taskGroupName)
        THEN LET sub == initSubGroup(created[source].subGroups, taskGroupName.val)
             IN  IF JsLookup(sub, taskGroupName.val) = "inherited" THEN Threw
                 ELSE Returned([created EXCEPT ![source].subGroups =
                         [sub EXCEPT ![taskGroupName.val] = Push(@, task)]])
        ELSE Returned([created EXCEPT ![source].tasks = Push(@, task)])

\* The tasks.forEach loop of organizeTasks from index i on, with the two
\* accumulators; a throw inside the callback ends the loop and the call.
RECURSIVE organizeFrom(_, _, _, _)
organizeFrom(ts, i, workspaceTasks, sourceGroups) ==
    IF i > Len(ts)
    THEN Returned([workspaceTasks |-> workspaceTasks, sourceGroups |-> sourceGroups])
    ELSE IF isWorkspaceTask(ts[i])
    THEN organizeFrom(ts, i + 1, Push(workspaceTasks, ts[i]), sourceGroups)
    ELSE LET r == organizeProviderTask(ts[i], sourceGroups)
         IN  IF r.kind = "threw" THEN Threw
             ELSE organizeFrom(ts, i + 1, workspaceTasks, r.value)

organizeTasks(ts) == organizeFrom(ts, 1, <<>>, EmptyObject)

-----------------------------------------------------------------------------
(* taskOrganizer.ts: the status deriver. *)

\* An execution descriptor references its task; only the name is read.
Execution(name) == [task |-> [name |-> name]]

\* Faulty variant of isRunning: the execution's task object is compared with
\* the task descriptor itself instead of by name.
isRunningByIdentity(execs, task) ==
    \E i \in DOMAIN execs : execs[i].task = task

\* Faulty variant of isRunning: only the first execution is compared.
isRunningFirstOnly(execs, task) ==
    execs # <<>> /\ execs[1].task.name = task.name

\* executions.some(execution => execution.task.name === task.name)
isRunning(execs, task) ==
    \E i \in DOMAIN execs : execs[i].task.name = task.name

\* Faulty variant of statusOf: a running task is reported 'green'.
statusOfGreen(execs, task) == IF isRunning(execs, task) THEN "green" ELSE "grey"

\* isRunning ? 'yellow' : 'grey'
statusOf(execs, task) == IF isRunning(execs, task) THEN "yellow" ELSE "grey"

\* The tasks.forEach loop of createTaskStatuses from index i on.
RECURSIVE statusesFrom(_, _, _, _)
statusesFrom(ts, execs, i, taskStatuses) ==
    IF i > Len(ts) THEN taskStatuses
    ELSE statusesFrom(ts, execs, i + 1,
            JsAssignPrimitive(taskStatuses, ts[i].name, statusOf(execs, ts[i])))

createTaskStatuses(ts, execs) == Returned(statusesFrom(ts, execs, 1, EmptyObject))

\* taskStatuses[name] as a reader of the map sees it: the own value, the
\* inherited built-in, or undefined.
readStatus(taskStatuses, name) ==
    CASE JsLookup(taskStatuses, name) = "own" -> taskStatuses[name]
      [] JsLookup(taskStatuses, name) = "inherited" -> "[inherited]"
      [] OTHER -> "[undefined]"

\* renderTaskItem: const status = taskStatuses[task.name] || 'grey'; the own
\* values and the inherited built-ins are truthy.
renderedStatus(taskStatuses, name) ==
    IF JsLookup(taskStatuses, name) = "undefined" THEN "grey"
    ELSE readStatus(taskStatuses, name)

\* renderTaskItem: the colour of the status indicator.
statusColor(status) ==
    CASE status = "green" -> "#22c55e80"
      [] status = "red" -> "#ef444480"
      [] status = "yellow" -> "#eab308"
      [] OTHER -> "#6b7280"

-----------------------------------------------------------------------------
(* htmlTemplate.ts and taskViewProvider.ts: the page the view displays. *)

\* The settings object of _getHtmlForTasks; every key defaults to true.
DefaultSettings ==
    [ showTooltips |-> TRUE, showGroupTooltips |-> TRUE,
      showSubgroupTooltips |-> TRUE, requireGroupConfirmation |-> TRUE,
      requireSubgroupConfirmation |-> TRUE, showTaskCounts |-> TRUE ]

\* The same settings with both confirmations switched off.
NoConfirmationSettings ==
    [DefaultSettings EXCEPT !.requireGroupConfirmation = FALSE,
                            !.requireSubgroupConfirmation = FALSE]

\* generateTaskViewHtml: the group name of a workspace task, computed inline.
templateTaskGroupName(task) ==
    IF ~Truthy(task.group) THEN Null
    ELSE IF task.group.type = "string" THEN task.group
    ELSE IF Truthy(task.group.id) THEN task.group.id
    ELSE JsString("build")

\* generateTaskViewHtml: the workspaceTasks.forEach loop from index i on that
\* fills workspaceGroups and ungroupedWorkspaceTasks; workspaceGroups[name]
\* read from an inherited key is a built-in without push, so the call throws.
RECURSIVE workspaceGroupsFrom(_, _, _, _)
workspaceGroupsFrom(ts, i, workspaceGroups, ungrouped) ==
    IF i > Len(ts)
    THEN Returned([workspaceGroups |-> workspaceGroups,
                   ungroupedWorkspaceTasks |-> ungrouped])
    ELSE LET taskGroupName == templateTaskGroupName(ts[i])
         IN  IF Truthy(taskGroupName)
             THEN LET created == initSubGroup(workspaceGroups, taskGroupName.val)
                  IN  IF JsLookup(created, taskGroupName.val) = "inherited"
                      THEN Threw
                      ELSE workspaceGroupsFrom(ts, i + 1,
                               [created EXCEPT ![taskGroupName.val] = Push(@, ts[i])],
                               ungrouped)
             ELSE workspaceGroupsFrom(ts, i + 1, workspaceGroups,
                                      Push(ungrouped, ts[i]))

\* generateTaskViewHtml: the page as the structure it is rendered from (the
\* string is a function of these five values), or Threw.
generateTaskViewHtml(workspaceTasks, sourceGroups, taskStatuses, pageSettings) ==
    LET grouped == workspaceGroupsFrom(workspaceTasks, 1, EmptyObject, <<>>)
    IN  IF grouped.kind = "threw" THEN Threw
        ELSE Returned([ ungroupedWorkspaceTasks |-> grouped.value.ungroupedWorkspaceTasks,
                        workspaceGroups |-> grouped.value.workspaceGroups,
                        sourceGroups |-> sourceGroups,
                        taskStatuses |-> taskStatuses,
                        settings |-> pageSettings ])

\* The count shown next to a group name:
\* settings.showTaskCounts && count > 1 ? `(${count})` : ''.
taskCountDisplay(pageSettings, count) ==
    IF pageSettings.showTaskCounts /\ count > 1
    THEN [shown |-> TRUE, count |-> count]
    ELSE [shown |-> FALSE]

\* The count of a source group:
\* totalCount = group.tasks.length + Object.keys(group.subGroups).length.
sourceTotalCount(group) ==
    Len(group.tasks) + Cardinality(OwnKeys(group.subGroups))

\* _getHtmlForTasks(tasks, taskStatuses), with the configuration it reads
\* when it runs.
getHtmlForTasks(ts, taskStatuses, config) ==
    LET result == organizeTasks(ts)
    IN  IF result.kind = "threw" THEN Threw
        ELSE generateTaskViewHtml(result.value.workspaceTasks,
                 result.value.sourceGroups, taskStatuses, config)

\* webview.html before the first render.
Blank == [kind |-> "blank"]

\* No callback has assigned webview.html yet.
NoRender == [kind |-> "none"]

\* A slot without a refreshTasks invocation in flight.
Idle == [pc |-> "idle"]

\* The entries setupEventListeners pushes onto this._disposables.
Disposables ==
    {"watcher", "onDidChange", "onDidCreate", "onDidDelete", "onDidStartTask",
     "onDidEndTask", "onDidChangeConfiguration", "onDidReceiveMessage"}

\* No message, no click.
None == [kind |-> "none"]

\* handleWebviewMessage is not running.
HandlerIdle == [pc |-> "idle"]

\* No message posted, none being handled, nothing recorded.
CommandIdle ==
    /\ pendingMessage = None
    /\ handler = HandlerIdle
    /\ click = None
    /\ executed = <<>>
    /\ terminated = <<>>
    /\ dialogs = <<>>
    /\ groupRuns = <<>>
    /\ notices = <<>>

\* The provider after its constructor and before resolveWebviewView: no view,
\* no listener, no timer, nothing displayed.
ProviderNotConstructed ==
    /\ webviewView = FALSE
    /\ listening = FALSE
    /\ pollInterval = "unset"
    /\ disposeCalled = FALSE
    /\ disposedDisposables = {}
    /\ settings = DefaultSettings
    /\ refreshes = <<>>
    /\ timers = <<>>
    /\ html = Blank
    /\ lastRender = NoRender
    /\ watch = "none"
    /\ unhandled = FALSE
    /\ CommandIdle

-----------------------------------------------------------------------------
(* The inputs the host can supply, and the two calls. *)

\* Task descriptors covering each shape of source and group the code tests:
\* source absent, "", "Workspace", another case, provider names, a name that
\* Object.prototype defines; group absent, "", a string, a structured value
\* with and without id, with an empty id, a name Object.prototype defines.
TaskUniverse ==
    { Task("A", Undefined, Undefined),
      Task("B", JsString("Workspace"), TaskGroupObj(JsString("build"))),
      Task("C", JsString(""), Undefined),
      Task("A", JsString("workspace"), Undefined),
      Task("A", JsString("npm"), JsString("test")),
      Task("B", JsString("npm"), TaskGroupObj(JsString("test"))),
      Task("C", JsString("npm"), TaskGroupObj(Undefined)),
      Task("C", JsString("npm"), JsString("")),
      Task("A", JsString("gulp"), TaskGroupObj(JsString(""))),
      Task("__proto__", JsString("npm"), Undefined),
      Task("C", JsString("constructor"), Undefined),
      Task("B", JsString("npm"), JsString("toString")) }

\* Names of the tasks an execution can reference.
ExecutionNames == {"A", "C"}

SeqsUpTo(S, n) == UNION {[1..k -> S] : k \in 0..n}

ExecutionLists ==
    {[i \in DOMAIN names |-> Execution(names[i])] :
        names \in SeqsUpTo(ExecutionNames, MaxExecutions)}

\* The two scenarios the specification spells out: two tasks named "build"
\* from different sources with one execution of "build"; and lint, compile,
\* dev with one execution of lint.
BuildCollisionTasks ==
    << Task("build", JsString("npm"), Undefined),
       Task("build", JsString("gulp"), Undefined) >>

EndToEndTasks ==
    << Task("lint", JsString("npm"), JsString("test")),
       Task("compile", JsString("npm"), Undefined),
       Task("dev", Undefined, Undefined) >>

ScenarioInputs ==
    { <<BuildCollisionTasks, <<Execution("build")>> >>,
      <<EndToEndTasks, <<Execution("lint")>> >> }

Init ==
    /\ \/ /\ tasks \in SeqsUpTo(TaskUniverse, MaxTasks)
          /\ executions \in ExecutionLists
       \/ \E input \in ScenarioInputs :
            /\ tasks = input[1]
            /\ executions = input[2]
    /\ organized = Pending
    /\ statuses = Pending
    /\ calls = 0
    /\ ProviderNotConstructed

\* const { workspaceTasks, sourceGroups } = organizeTasks(tasks);
CallOrganizeTasks ==
    /\ organized = Pending
    /\ organized' = organizeTasks(tasks)
    /\ UNCHANGED <<tasks, executions, statuses, calls, providerVars, commandVars>>

\* const taskStatuses = createTaskStatuses(tasks, executions);
CallCreateTaskStatuses ==
    /\ statuses = Pending
    /\ statuses' = createTaskStatuses(tasks, executions)
    /\ UNCHANGED <<tasks, executions, organized, calls, providerVars, commandVars>>

Next == CallOrganizeTasks \/ CallCreateTaskStatuses

Spec == Init /\ [][Next]_vars

-----------------------------------------------------------------------------
(* Repeated calls of the two functions on the same lists, in any order. *)

\* Faulty variant of arrayAfterForEach: the loop consumes the array it walks
\* (tasks.shift() until empty).
arrayDrained(array) == <<>>

\* tasks.forEach(...) in both functions only reads the array: the callbacks
\* push the elements onto fresh arrays and assign to fresh objects.
arrayAfterForEach(array) == array

RepeatInit ==
    /\ tasks \in SeqsUpTo(TaskUniverse, MaxRepeatTasks)
    /\ executions \in ExecutionLists
    /\ organized = Pending
    /\ statuses = Pending
    /\ calls = 0
    /\ ProviderNotConstructed

RepeatOrganizeTasks ==
    /\ calls < MaxCalls
    /\ calls' = calls + 1
    /\ organized' = organizeTasks(tasks)
    /\ tasks' = arrayAfterForEach(tasks)
    /\ UNCHANGED <<executions, statuses, providerVars, commandVars>>

RepeatCreateTaskStatuses ==
    /\ calls < MaxCalls
    /\ calls' = calls + 1
    /\ statuses' = createTaskStatuses(tasks, executions)
    /\ tasks' = arrayAfterForEach(tasks)
    /\ UNCHANGED <<executions, organized, providerVars, commandVars>>

RepeatNext == RepeatOrganizeTasks \/ RepeatCreateTaskStatuses

RepeatSpec == RepeatInit /\ [][RepeatNext]_vars

-----------------------------------------------------------------------------
(* taskViewProvider.ts: the view, its refreshes, its listeners, dispose(). *)

\* A task descriptor of the host with its definition; the classifier reads
\* name, source and group only.
ProviderTask(name, source, group, type) ==
    [name |-> name, source |-> source, group |-> group,
     definition |-> [type |-> type]]

\* The task lists vscode.tasks.fetchTasks() can resolve with: the lint,
\* compile, dev list; and dev with a task whose source is a name
\* Object.prototype defines.
HostTaskLists ==
    { << ProviderTask("lint", JsString("npm"), JsString("test"), "npm"),
         ProviderTask("compile", JsString("npm"), Undefined, "npm"),
         ProviderTask("dev", Undefined, Undefined, "shell") >>,
      << ProviderTask("dev", Undefined, Undefined, "shell"),
         ProviderTask("serve", JsString("constructor"), Undefined, "shell") >> }

\* The tasks the host starts and ends.
RunnableNames == {"dev"}

\* The values the taskView configuration takes.
HostSettings == {DefaultSettings, NoConfirmationSettings}

Slots == 1..MaxInFlight

FreeSlots == {slot \in Slots : refreshes[slot] = Idle}

FirstFreeSlot == CHOOSE slot \in FreeSlots : \A other \in FreeSlots : slot <= other

\* refreshTasks() up to its first await: nothing without a view
\* (if (!this._webviewView) return), else fetchTasks() is called and the
\* invocation waits for it.  awaited marks the invocation resolveWebviewView
\* awaits before it registers the listeners.
refreshTasksCalled(awaited) ==
    IF ~webviewView' THEN UNCHANGED refreshes
    ELSE refreshes' = [refreshes EXCEPT
             ![FirstFreeSlot] = [pc |-> "fetching", awaited |-> awaited]]

\* A listener or the interval calls refreshTasks(); the host raises the event
\* only while a slot is free.
ListenerRefresh ==
    IF listening THEN FreeSlots # {} /\ refreshTasksCalled(FALSE)
    ELSE UNCHANGED refreshes

\* One task start or end event of a behaviour is singled out, at most once,
\* while the view exists.
SingleOut ==
    \/ UNCHANGED watch
    \/ watch = "none" /\ webviewView /\ watch' = "pending"

\* The state before resolveWebviewView, with the event to single out still
\* to come (singling = "none") or with no event ever singled out ("off").
ProviderInit(singling) ==
    /\ tasks \in HostTaskLists
    /\ executions = <<>>
    /\ organized = Pending
    /\ statuses = Pending
    /\ calls = 0
    /\ webviewView = FALSE
    /\ listening = FALSE
    /\ pollInterval = "unset"
    /\ disposeCalled = FALSE
    /\ disposedDisposables = {}
    /\ settings \in HostSettings
    /\ refreshes = [slot \in Slots |-> Idle]
    /\ timers = <<>>
    /\ html = Blank
    /\ lastRender = NoRender
    /\ watch = singling
    /\ unhandled = FALSE
    /\ CommandIdle

RefreshInit == ProviderInit("off")

\* resolveWebviewView up to await this.refreshTasks().
ResolveWebviewView ==
    /\ UNCHANGED <<commandVars, unhandled>>
    /\ ~webviewView
    /\ webviewView' = TRUE
    /\ refreshTasksCalled(TRUE)
    /\ UNCHANGED <<tasks, executions, organized, statuses, calls, listening,
                   pollInterval, disposeCalled, disposedDisposables, settings,
                   timers, html, lastRender, watch>>

\* tasks.json changes: the host's task list changes and the watcher fires.
TasksFileChanged ==
    /\ UNCHANGED <<commandVars, unhandled>>
    /\ \E ts \in HostTaskLists \ {tasks} : tasks' = ts
    /\ UNCHANGED webviewView
    /\ ListenerRefresh
    /\ UNCHANGED <<executions, organized, statuses, calls, listening,
                   pollInterval, disposeCalled, disposedDisposables, settings,
                   timers, html, lastRender, watch>>

\* The host starts a task: vscode.tasks.taskExecutions gains an execution and
\* onDidStartTask fires.
TaskStarted ==
    /\ UNCHANGED <<commandVars, unhandled>>
    /\ Len(executions) < MaxRunning
    /\ \E name \in RunnableNames : executions' = Append(executions, Execution(name))
    /\ UNCHANGED webviewView
    /\ ListenerRefresh
    /\ SingleOut
    /\ UNCHANGED <<tasks, organized, statuses, calls, listening, pollInterval,
                   disposeCalled, disposedDisposables, settings, timers, html,
                   lastRender>>

\* A task ends: its execution leaves taskExecutions and onDidEndTask fires.
TaskEnded ==
    /\ UNCHANGED <<commandVars, unhandled>>
    /\ \E i \in DOMAIN executions :
         executions' = [j \in 1..(Len(executions) - 1) |->
                            IF j < i THEN executions[j] ELSE executions[j + 1]]
    /\ UNCHANGED webviewView
    /\ ListenerRefresh
    /\ SingleOut
    /\ UNCHANGED <<tasks, organized, statuses, calls, listening, pollInterval,
                   disposeCalled, disposedDisposables, settings, timers, html,
                   lastRender>>

\* A taskView setting changes: e.affectsConfiguration('taskView') holds.
ConfigurationChanged ==
    /\ UNCHANGED <<commandVars, unhandled>>
    /\ \E config \in HostSettings \ {settings} : settings' = config
    /\ UNCHANGED webviewView
    /\ ListenerRefresh
    /\ UNCHANGED <<tasks, executions, organized, statuses, calls, listening,
                   pollInterval, disposeCalled, disposedDisposables, timers,
                   html, lastRender, watch>>

\* The setInterval callback: this.refreshTasks() every ten seconds.
PollTick ==
    /\ UNCHANGED <<commandVars, unhandled>>
    /\ pollInterval = "set"
    /\ FreeSlots # {}
    /\ UNCHANGED webviewView
    /\ refreshTasksCalled(FALSE)
    /\ UNCHANGED <<tasks, executions, organized, statuses, calls, listening,
                   pollInterval, disposeCalled, disposedDisposables, settings,
                   timers, html, lastRender, watch>>

\* dispose(): if (this._pollInterval) { clearInterval(this._pollInterval); }
\* and nothing else.
Dispose ==
    /\ UNCHANGED <<commandVars, unhandled>>
    /\ ~disposeCalled
    /\ disposeCalled' = TRUE
    /\ pollInterval' = IF pollInterval = "set" THEN "cleared" ELSE pollInterval
    /\ UNCHANGED <<tasks, executions, organized, statuses, calls, webviewView,
                   listening, disposedDisposables, settings, refreshes, timers,
                   html, lastRender, watch>>

\* resolveWebviewView after await this.refreshTasks(): setupEventListeners
\* registers the listeners and starts the interval.  It runs in the turn in
\* which the awaited invocation returns.
setupEventListeners(awaited) ==
    IF awaited
    THEN listening' = TRUE /\ pollInterval' = "set"
    ELSE UNCHANGED <<listening, pollInterval>>

\* Faulty variant of statusesOfRefresh: the statuses are derived again from
\* the executions at the time the callback runs.
statusesAtCallback(refresh, execs) ==
    createTaskStatuses(refresh.tasks, execs).value

\* The callback of setTimeout closes over the taskStatuses its own invocation
\* computed.
statusesOfRefresh(refresh, execs) == refresh.statuses

\* Faulty variant of postMessageBeforeTimer: preserveState is posted by the
\* callback, after it has assigned webview.html.
postMessageInsideTimer == FALSE

\* postMessage({ command: 'preserveState' }) is called before setTimeout, in
\* the turn in which the fetch resolves.
postMessageBeforeTimer == TRUE

\* fetchTasks() resolves: the invocation reads taskExecutions, derives the
\* statuses, posts preserveState and schedules the callback 50 ms ahead.
FetchResolved(slot) ==
    /\ UNCHANGED <<commandVars, unhandled>>
    /\ refreshes[slot].pc = "fetching"
    /\ refreshes' = [refreshes EXCEPT ![slot] =
           [ pc |-> "scheduled",
             tasks |-> tasks,
             executions |-> executions,
             statuses |-> createTaskStatuses(tasks, executions).value,
             preserveStatePosted |-> postMessageBeforeTimer,
             watched |-> (watch = "pending") ]]
    /\ timers' = Append(timers, slot)
    /\ setupEventListeners(refreshes[slot].awaited)
    /\ UNCHANGED <<tasks, executions, organized, statuses, calls, webviewView,
                   disposeCalled, disposedDisposables, settings, html,
                   lastRender, watch>>

\* fetchTasks() rejects: the catch clause logs the error and the invocation
\* returns without scheduling a callback.
FetchRejected(slot) ==
    /\ UNCHANGED <<commandVars, unhandled>>
    /\ refreshes[slot].pc = "fetching"
    /\ refreshes' = [refreshes EXCEPT ![slot] = Idle]
    /\ setupEventListeners(refreshes[slot].awaited)
    /\ UNCHANGED <<tasks, executions, organized, statuses, calls, webviewView,
                   disposeCalled, disposedDisposables, settings, timers, html,
                   lastRender, watch>>

\* The oldest setTimeout callback runs: if (this._webviewView) it assigns
\* webview.html; an exception of _getHtmlForTasks leaves the callback with
\* nothing assigned.
TimerFired ==
    /\ UNCHANGED commandVars
    /\ timers # <<>>
    /\ LET slot == Head(timers)
           refresh == refreshes[slot]
           page == getHtmlForTasks(refresh.tasks,
                       statusesOfRefresh(refresh, executions), settings)
       IN  /\ refreshes' = [refreshes EXCEPT ![slot] = Idle]
           /\ timers' = Tail(timers)
           /\ IF ~webviewView
              THEN UNCHANGED <<html, lastRender, watch, unhandled>>
              ELSE IF page.kind = "threw"
              THEN /\ unhandled' = TRUE
                   /\ UNCHANGED <<html, lastRender, watch>>
              ELSE /\ html' = page.value
                   /\ UNCHANGED unhandled
                   /\ lastRender' = [ tasks |-> refresh.tasks,
                                      executions |-> refresh.executions,
                                      settings |-> settings ]
                   /\ watch' = IF refresh.watched /\ watch = "pending"
                               THEN "served" ELSE watch
    /\ UNCHANGED <<tasks, executions, organized, statuses, calls, webviewView,
                   listening, pollInterval, disposeCalled, disposedDisposables,
                   settings>>

HostEvent == TasksFileChanged \/ TaskStarted \/ TaskEnded \/ ConfigurationChanged

RefreshNext ==
    \/ ResolveWebviewView
    \/ HostEvent
    \/ PollTick
    \/ Dispose
    \/ \E slot \in Slots : FetchResolved(slot)
    \/ \E slot \in Slots : FetchRejected(slot)
    \/ TimerFired

RefreshSpec == RefreshInit /\ [][RefreshNext]_vars

\* The provider when task fetching succeeds and timers fire: no fetch
\* rejects, every pending fetch resolves, every scheduled callback and the
\* interval callback run; one task start or end event is singled out.
FairRefreshInit == ProviderInit("none")

FairRefreshNext ==
    \/ ResolveWebviewView
    \/ HostEvent
    \/ PollTick
    \/ Dispose
    \/ \E slot \in Slots : FetchResolved(slot)
    \/ TimerFired

FairRefreshSpec ==
    /\ FairRefreshInit
    /\ [][FairRefreshNext]_vars
    /\ \A slot \in Slots : WF_vars(FetchResolved(slot))
    /\ WF_vars(TimerFired)
    /\ WF_vars(PollTick)

\* No refreshTasks invocation is in flight.
AllRefreshesCompleted == \A slot \in Slots : refreshes[slot] = Idle

\* The page rendered from the (tasks, statuses) snapshot an invocation took
\* when its fetch resolved with these lists, under a configuration.
RenderOfSnapshot(ts, execs, config) ==
    getHtmlForTasks(ts, createTaskStatuses(ts, execs).value, config)

-----------------------------------------------------------------------------
(* htmlTemplate.ts: the buttons of the page and the click handler of its     *)
(* script; taskViewProvider.ts: handleWebviewMessage.                        *)

ElementsOf(array) == {array[i] : i \in DOMAIN array}

\* Every task rendered by renderTaskItem on the page.
PageTasks(page) ==
    ElementsOf(page.ungroupedWorkspaceTasks)
    \cup UNION {ElementsOf(page.workspaceGroups[g]) : g \in OwnKeys(page.workspaceGroups)}
    \cup UNION {ElementsOf(page.sourceGroups[s].tasks) : s \in OwnKeys(page.sourceGroups)}
    \cup UNION { UNION {ElementsOf(page.sourceGroups[s].subGroups[g]) :
                           g \in OwnKeys(page.sourceGroups[s].subGroups)} :
                   s \in OwnKeys(page.sourceGroups) }

\* A button as the click handler reads it: getAttribute yields the attribute's
\* string, or null for an attribute the button does not carry.
Button(command, task, group, source, groupType) ==
    [command |-> command, task |-> task, group |-> group, source |-> source,
     groupType |-> groupType]

\* renderTaskItem: the run and the stop button of a task carry data-command
\* and data-task.
TaskButtons(task) ==
    { Button(JsString("runTask"), JsString(task.name), Null, Null, Null),
      Button(JsString("terminateTask"), JsString(task.name), Null, Null, Null) }

\* The run-group button of a workspace group: data-command, data-group,
\* data-group-type; no data-task.
WorkspaceGroupButtons(page) ==
    { Button(JsString("runGroup"), Null, JsString(g), Null, JsString("workspace")) :
        g \in OwnKeys(page.workspaceGroups) }

\* The run-subgroup button of a provider subgroup: data-command, data-group,
\* data-source; no data-task.
SubGroupButtons(page) ==
    UNION { { Button(JsString("runSubGroup"), Null, JsString(g), JsString(s), Null) :
                g \in OwnKeys(page.sourceGroups[s].subGroups) } :
            s \in OwnKeys(page.sourceGroups) }

\* The run-source-group button of a source: data-command, data-source; no
\* data-task.
SourceGroupButtons(page) ==
    { Button(JsString("runSourceGroup"), Null, Null, JsString(s), Null) :
        s \in { s2 \in OwnKeys(page.sourceGroups) :
                  \/ page.sourceGroups[s2].tasks # <<>>
                  \/ OwnKeys(page.sourceGroups[s2].subGroups) # {} } }

\* document.querySelectorAll('button.action'): the buttons that carry a command.
Buttons(page) ==
    UNION {TaskButtons(task) : task \in PageTasks(page)}
    \cup WorkspaceGroupButtons(page) \cup SubGroupButtons(page)
    \cup SourceGroupButtons(page)

GroupCommands == {"runGroup", "runSubGroup", "runSourceGroup"}

\* A message of the webview; a key the sender leaves out reads undefined.
Message(command, name, group, source, groupType, text, originalCommand) ==
    [command |-> command, name |-> name, group |-> group, source |-> source,
     groupType |-> groupType, message |-> text, originalCommand |-> originalCommand]

\* { command, name: task, group, source, groupType }
CommandMessage(button) ==
    Message(button.command, button.task, button.group, button.source,
            button.groupType, Undefined, Undefined)

\* The click handler: requireConfirmation, from the settings the page was
\* generated with.
requireConfirmation(page, button) ==
    \/ button.command = JsString("runGroup") /\ page.settings.requireGroupConfirmation
    \/ /\ button.command \in {JsString("runSubGroup"), JsString("runSourceGroup")}
       /\ page.settings.requireSubgroupConfirmation

\* The click handler: the message it posts for a button and the Shift key
\* (None: it posts nothing).
clickMessage(page, button, shiftPressed) ==
    IF /\ button.command.val \in GroupCommands
       /\ ~shiftPressed
       /\ requireConfirmation(page, button)
    THEN LET groupName == IF Truthy(button.group) THEN button.group ELSE button.source
         IN  Message(JsString("showConfirmation"), Undefined, Undefined, Undefined,
                     Undefined,
                     JsString("Run all tasks in \"" \o groupName.val \o "\"?"),
                     CommandMessage(button))
    ELSE IF Truthy(button.command) \/ Truthy(button.task) \/ Truthy(button.group)
    THEN CommandMessage(button)
    ELSE None

\* Faulty variant of firstNamed: the last task of that name is found.
lastNamed(ts, name) ==
    IF \E i \in DOMAIN ts : ts[i].name = name
    THEN <<ts[CHOOSE i \in DOMAIN ts :
                /\ ts[i].name = name
                /\ \A j \in DOMAIN ts : ts[j].name = name => j <= i]>>
    ELSE <<>>

\* tasks.find(task => task.name === name): the first match, as a list of at
\* most one task.
firstNamed(ts, name) ==
    IF \E i \in DOMAIN ts : ts[i].name = name
    THEN <<ts[CHOOSE i \in DOMAIN ts :
                /\ ts[i].name = name
                /\ \A j \in DOMAIN ts : ts[j].name = name => i <= j]>>
    ELSE <<>>

\* task.group?.id === groupName: a string group has no id.
groupIdIs(task, groupName) ==
    /\ task.group.type = "object"
    /\ task.group.id = JsString(groupName)

\* getTasksForGroup(command, groupName) on the fetched list.
getTasksForGroup(allTasks, command, groupName) ==
    LET byGroupId(task) == groupIdIs(task, groupName)
        byTypeOrSource(task) ==
            task.definition.type = groupName \/ task.source = JsString(groupName)
        bySource(task) == task.source = JsString(groupName)
    IN  CASE command = "runGroup" -> SelectSeq(allTasks, byGroupId)
          [] command = "runSubGroup" -> SelectSeq(allTasks, byTypeOrSource)
          [] command = "runSourceGroup" -> SelectSeq(allTasks, bySource)
          [] OTHER -> <<>>

\* Faulty variant of dialogAccepted: every answer but 'No' runs the group.
dialogAcceptedUnlessNo(result) == result # "No"

\* result === 'Yes'
dialogAccepted(result) == result = "Yes"

\* The answers of the modal dialog: a button, or undefined when dismissed.
DialogAnswers == {"Yes", "No", "undefined"}

\* executeGroupRun(message) up to its first await: the call is recorded
\* after the calls so far; if (!message.name) { return; } else
\* getTasksForGroup fetches the tasks.
executeGroupRun(message, runsSoFar) ==
    /\ groupRuns' = Append(runsSoFar, message)
    /\ handler' = IF ~Truthy(message.name) THEN HandlerIdle
                  ELSE [pc |-> "getTasksForGroup",
                        command |-> message.command.val,
                        name |-> message.name.val]

\* The lists of the command scenarios: a workspace task of group build with
\* lint, compile and dev; and two tasks named dev.
CommandTaskLists ==
    { << ProviderTask("build", JsString("Workspace"),
                      TaskGroupObj(JsString("build")), "shell"),
         ProviderTask("lint", JsString("npm"), JsString("test"), "npm"),
         ProviderTask("compile", JsString("npm"), Undefined, "npm"),
         ProviderTask("dev", Undefined, Undefined, "shell") >>,
      << ProviderTask("dev", JsString("npm"), Undefined, "npm"),
         ProviderTask("dev", Undefined, Undefined, "shell") >> }

\* The executions active when a message is handled.
CommandExecutionLists ==
    {[i \in DOMAIN names |-> Execution(names[i])] :
        names \in SeqsUpTo({"dev", "lint"}, MaxActive)}

\* The taskView configurations, by the two confirmation settings.
ConfirmationSettings ==
    {[DefaultSettings EXCEPT !.requireGroupConfirmation = g,
                             !.requireSubgroupConfirmation = s] :
        g \in BOOLEAN, s \in BOOLEAN}

\* The provider with its listeners registered and a page on display that was
\* rendered from an earlier list; the host's list now may differ from it.
CommandInit ==
    /\ tasks \in CommandTaskLists \cup {<<>>}
    /\ executions \in CommandExecutionLists
    /\ organized = Pending
    /\ statuses = Pending
    /\ calls = 0
    /\ webviewView = TRUE
    /\ listening = TRUE
    /\ pollInterval = "set"
    /\ disposeCalled = FALSE
    /\ disposedDisposables = {}
    /\ settings \in ConfirmationSettings
    /\ refreshes = [slot \in Slots |-> Idle]
    /\ timers = <<>>
    /\ \E displayed \in CommandTaskLists :
          /\ html = RenderOfSnapshot(displayed, executions, settings).value
          /\ lastRender = [tasks |-> displayed, executions |-> executions,
                           settings |-> settings]
    /\ watch = "off"
    /\ unhandled = FALSE
    /\ CommandIdle

\* A click on a button of the page: the script posts its message.  One
\* message is followed at a time; the records of its effects start empty.
Click ==
    /\ html # Blank
    /\ pendingMessage = None /\ handler = HandlerIdle
    /\ \E button \in Buttons(html), shiftPressed \in BOOLEAN :
          /\ click' = [button |-> button, shiftKey |-> shiftPressed]
          /\ pendingMessage' = clickMessage(html, button, shiftPressed)
    /\ executed' = <<>>
    /\ terminated' = <<>>
    /\ dialogs' = <<>>
    /\ groupRuns' = <<>>
    /\ notices' = <<>>
    /\ UNCHANGED <<tasks, executions, organized, statuses, calls, providerVars,
                   handler>>

\* onDidReceiveMessage: handleWebviewMessage(message) up to its first await.
ReceiveMessage ==
    /\ listening
    /\ pendingMessage # None /\ handler = HandlerIdle
    /\ pendingMessage' = None
    /\ LET message == pendingMessage
           command == message.command.val
       IN  CASE command = "runTask" ->
                  /\ handler' = IF Truthy(message.name)
                                 THEN [pc |-> "findTaskByName", name |-> message.name.val]
                                 ELSE HandlerIdle
                  /\ UNCHANGED <<terminated, dialogs, groupRuns, notices>>
             [] command = "terminateTask" ->
                  /\ terminated' =
                        IF Truthy(message.name)
                        THEN LET named(te) == te.task.name = message.name.val
                             IN  terminated \o SelectSeq(executions, named)
                        ELSE terminated
                  /\ UNCHANGED <<handler, dialogs, groupRuns, notices>>
             [] command \in GroupCommands ->
                  /\ executeGroupRun(message, groupRuns)
                  /\ UNCHANGED <<terminated, dialogs, notices>>
             [] command = "showConfirmation" ->
                  /\ IF Truthy(message.message)
                     THEN /\ dialogs' = Append(dialogs, [message |-> message.message.val,
                                                         result |-> "open"])
                          /\ handler' = [pc |-> "showInformationMessage",
                                         originalCommand |-> message.originalCommand]
                     ELSE UNCHANGED <<dialogs, handler>>
                  /\ UNCHANGED <<terminated, groupRuns, notices>>
             [] command = "pauseTask" ->
                  /\ notices' = IF Truthy(message.name)
                                 THEN Append(notices, "Pause not implemented")
                                 ELSE notices
                  /\ UNCHANGED <<handler, terminated, dialogs, groupRuns>>
             [] OTHER ->
                  UNCHANGED <<handler, terminated, dialogs, groupRuns, notices>>
    /\ UNCHANGED <<tasks, executions, organized, statuses, calls, providerVars,
                   executed, click>>

\* The user answers the modal dialog or dismisses it:
\* if (result === 'Yes' && message.originalCommand) executeGroupRun(...).
DialogAnswered ==
    /\ handler.pc = "showInformationMessage"
    /\ \E result \in DialogAnswers :
          /\ dialogs' = [dialogs EXCEPT ![Len(dialogs)].result = result]
          /\ IF dialogAccepted(result) /\ handler.originalCommand # Undefined
             THEN executeGroupRun(handler.originalCommand, groupRuns)
             ELSE handler' = HandlerIdle /\ UNCHANGED groupRuns
    /\ UNCHANGED <<tasks, executions, organized, statuses, calls, providerVars,
                   pendingMessage, executed, terminated, notices, click>>

\* fetchTasks() of findTaskByName or of getTasksForGroup resolves with the
\* host's list of that moment; the tasks to execute are queued.
HandlerFetchResolved ==
    /\ handler.pc \in {"findTaskByName", "getTasksForGroup"}
    /\ LET queue == IF handler.pc = "findTaskByName"
                    THEN firstNamed(tasks, handler.name)
                    ELSE getTasksForGroup(tasks, handler.command, handler.name)
       IN  handler' = IF queue = <<>> THEN HandlerIdle
                      ELSE [pc |-> "executeTask", queue |-> queue,
                            inGroup |-> (handler.pc = "getTasksForGroup"),
                            name |-> handler.name]
    /\ UNCHANGED <<tasks, executions, organized, statuses, calls, providerVars,
                   pendingMessage, executed, terminated, dialogs, groupRuns,
                   notices, click>>

\* Faulty variant of failureNotice: the error of a group run reaches the
\* catch of onDidReceiveMessage.
failureNoticeFromHandler(inGroup, name) == "Task View: Failed to execute command"

\* The notice shown when an await of the handler rejects: the catch of
\* executeGroupRun inside a group run, which names the group, else the catch
\* of onDidReceiveMessage.
failureNotice(inGroup, name) ==
    IF inGroup THEN "Failed to run group \"" \o name \o "\""
    ELSE "Task View: Failed to execute command"

\* fetchTasks() of the handler rejects.
HandlerFetchRejected ==
    /\ handler.pc \in {"findTaskByName", "getTasksForGroup"}
    /\ notices' = Append(notices, failureNotice(handler.pc = "getTasksForGroup",
                                             handler.name))
    /\ handler' = HandlerIdle
    /\ UNCHANGED <<tasks, executions, organized, statuses, calls, providerVars,
                   pendingMessage, executed, terminated, dialogs, groupRuns, click>>

\* await vscode.tasks.executeTask(task) resolves: the host has started the
\* task; a group run goes on with the next task.
ExecuteTaskResolved ==
    /\ handler.pc = "executeTask"
    /\ executed' = Append(executed, Head(handler.queue))
    /\ handler' = IF Tail(handler.queue) = <<>> THEN HandlerIdle
                  ELSE [handler EXCEPT !.queue = Tail(@)]
    /\ UNCHANGED <<tasks, executions, organized, statuses, calls, providerVars,
                   pendingMessage, terminated, dialogs, groupRuns, notices, click>>

\* await vscode.tasks.executeTask(task) rejects: the rest is abandoned.
ExecuteTaskRejected ==
    /\ handler.pc = "executeTask"
    /\ notices' = Append(notices, failureNotice(handler.inGroup, handler.name))
    /\ handler' = HandlerIdle
    /\ UNCHANGED <<tasks, executions, organized, statuses, calls, providerVars,
                   pendingMessage, executed, terminated, dialogs, groupRuns, click>>

CommandNext ==
    \/ Click
    \/ ReceiveMessage
    \/ DialogAnswered
    \/ HandlerFetchResolved
    \/ HandlerFetchRejected
    \/ ExecuteTaskResolved
    \/ ExecuteTaskRejected

CommandSpec == CommandInit /\ [][CommandNext]_vars

\* The names a group message can carry.
GroupRunNames == {"npm", "build", "test", "shell"}

\* handleWebviewMessage receives a group command that carries a name (the
\* buttons of the page send none) and passes it to executeGroupRun; the
\* records of its effects start empty.
NamedGroupMessageReceived ==
    /\ listening
    /\ pendingMessage = None /\ handler = HandlerIdle
    /\ \E command \in GroupCommands, name \in GroupRunNames :
          executeGroupRun(Message(JsString(command), JsString(name), Undefined,
                                  Undefined, Undefined, Undefined, Undefined),
                          <<>>)
    /\ executed' = <<>>
    /\ notices' = <<>>
    /\ UNCHANGED <<tasks, executions, organized, statuses, calls, providerVars,
                   pendingMessage, click, terminated, dialogs>>

GroupRunNext ==
    \/ NamedGroupMessageReceived
    \/ HandlerFetchResolved
    \/ HandlerFetchRejected
    \/ ExecuteTaskResolved
    \/ ExecuteTaskRejected

GroupRunSpec == CommandInit /\ [][GroupRunNext]_vars

-----------------------------------------------------------------------------
(* Vocabulary of the properties. *)

Range(seq) == {seq[i] : i \in DOMAIN seq}

\* Number of occurrences of t in seq.
Count(seq, t) == Cardinality({i \in DOMAIN seq : seq[i] = t})

\* The destination buckets of an organized result o.
BucketIds(o) ==
    {<<"workspace">>}
    \cup {<<"direct", s>> : s \in OwnKeys(o.sourceGroups)}
    \cup UNION {{<<"sub", s, g>> : g \in OwnKeys(o.sourceGroups[s].subGroups)} :
                    s \in OwnKeys(o.sourceGroups)}

ProviderBucketIds(o) == BucketIds(o) \ {<<"workspace">>}

Bucket(o, b) ==
    CASE b[1] = "workspace" -> o.workspaceTasks
      [] b[1] = "direct" -> o.sourceGroups[b[2]].tasks
      [] OTHER -> o.sourceGroups[b[2]].subGroups[b[3]]

RECURSIVE SumLen(_, _)
SumLen(o, B) ==
    IF B = {} THEN 0
    ELSE LET b == CHOOSE x \in B : TRUE
         IN  Len(Bucket(o, b)) + SumLen(o, B \ {b})

RECURSIVE SumCount(_, _, _)
SumCount(o, B, t) ==
    IF B = {} THEN 0
    ELSE LET b == CHOOSE x \in B : TRUE
         IN  Count(Bucket(o, b), t) + SumCount(o, B \ {b}, t)

\* s is a subsequence of t: s embeds into t by a strictly increasing map.
RECURSIVE IsSubseqFrom(_, _, _, _)
IsSubseqFrom(s, i, t, j) ==
    IF i > Len(s) THEN TRUE
    ELSE IF j > Len(t) THEN FALSE
    ELSE IF s[i] = t[j] THEN IsSubseqFrom(s, i + 1, t, j + 1)
    ELSE IsSubseqFrom(s, i, t, j + 1)

IsSubseq(s, t) == IsSubseqFrom(s, 1, t, 1)

TaskNames(ts) == [i \in DOMAIN ts |-> ts[i].name]
ExecutionNameSet(execs) == {execs[i].task.name : i \in DOMAIN execs}

\* The partition property of an organized result o of the input ts.
IsPartition(o, ts) ==
    /\ SumLen(o, BucketIds(o)) = Len(ts)
    /\ \A t \in Range(ts) : SumCount(o, BucketIds(o), t) = Count(ts, t)
    /\ \A b \in BucketIds(o) : Range(Bucket(o, b)) \subseteq Range(ts)

-----------------------------------------------------------------------------
(* Properties. *)

\* C1: for every input task list, organizeTasks yields a strict partition:
\* every input task occurrence is in exactly one bucket and the bucket sizes
\* add up to the number of input tasks.
C1_PartitionComplete ==
    organized # Pending =>
        /\ organized.kind = "returned"
        /\ IsPartition(organized.value, tasks)

\* C1, what the code does guarantee: every result that organizeTasks returns
\* is a strict partition of its input.
C1_PartitionWhenReturned ==
    organized.kind = "returned" => IsPartition(organized.value, tasks)

\* C2: in every destination bucket of organizeTasks the tasks keep the
\* relative order they have in the input list.
C2_OrderPreserved ==
    organized.kind = "returned" =>
        \A b \in BucketIds(organized.value) :
            IsSubseq(Bucket(organized.value, b), tasks)

\* C2 witness: a returned result with a subgroup bucket that holds two
\* different tasks.
C2_Witness ==
    /\ organized.kind = "returned"
    /\ \E b \in BucketIds(organized.value) :
        /\ b[1] = "sub"
        /\ Len(Bucket(organized.value, b)) >= 2
        /\ Bucket(organized.value, b)[1] # Bucket(organized.value, b)[2]

\* C3: createTaskStatuses maps every task's name to 'yellow' iff some
\* execution references a task of that name and to 'grey' otherwise; with no
\* tasks the map is empty.
C3_StatusIffRunning ==
    statuses.kind = "returned" =>
        /\ \A i \in DOMAIN tasks :
            readStatus(statuses.value, tasks[i].name) =
                (IF tasks[i].name \in ExecutionNameSet(executions)
                 THEN "yellow" ELSE "grey")
        /\ (tasks = <<>> => OwnKeys(statuses.value) = {})

\* C4 as stated: tasks named A, B, C and executions referencing A and C give
\* the map {A: running, B: idle, C: idle}.
C4_Scenario ==
    /\ TaskNames(tasks) = <<"A", "B", "C">>
    /\ ExecutionNameSet(executions) = {"A", "C"}
    /\ statuses.kind = "returned"

C4_AsStated ==
    C4_Scenario =>
        statuses.value = [n \in {"A", "B", "C"} |->
                            IF n = "A" THEN "yellow" ELSE "grey"]

\* C4 amended: tasks named A, B, C and executions referencing A and C give
\* the map {A: running, B: idle, C: running}.
C4_RunningDetection ==
    C4_Scenario =>
        statuses.value = [n \in {"A", "B", "C"} |->
                            IF n = "B" THEN "grey" ELSE "yellow"]

\* C4 witness: the scenario has been computed.
C4_Witness == C4_Scenario /\ Len(executions) = 2

\* A task of the input with the empty string as its source.
HasEmptySource(task) == task.source = JsString("")

InProviderBucket(o, t) ==
    \E b \in ProviderBucketIds(o) : t \in Range(Bucket(o, b))

InSourceGroup(o, source, t) ==
    \E b \in ProviderBucketIds(o) : b[2] = source /\ t \in Range(Bucket(o, b))

\* C5 as stated: a task whose source is "" is not in workspaceTasks and is
\* under sourceGroups["Unknown"].
C5_AsStated ==
    organized.kind = "returned" =>
        \A t \in Range(tasks) :
            HasEmptySource(t) =>
                /\ t \notin Range(organized.value.workspaceTasks)
                /\ InSourceGroup(organized.value, "Unknown", t)

\* C5 amended: a task whose source is "" is routed like a task without a
\* source: every occurrence is in workspaceTasks, none is in a source group,
\* and sourceGroups has a key "Unknown" only if a task has that very source.
C5_EmptySourceIsWorkspace ==
    /\ \A t \in Range(tasks) : HasEmptySource(t) => isWorkspaceTask(t)
    /\ organized.kind = "returned" =>
        /\ \A t \in Range(tasks) :
            HasEmptySource(t) =>
                /\ Count(organized.value.workspaceTasks, t) = Count(tasks, t)
                /\ ~InProviderBucket(organized.value, t)
        /\ "Unknown" \in OwnKeys(organized.value.sourceGroups) =>
                \E t \in Range(tasks) : t.source = JsString("Unknown")

\* C5 witness: a result returned for an input holding a task with source "".
C5_Witness ==
    /\ organized.kind = "returned"
    /\ \E t \in Range(tasks) :
        HasEmptySource(t) /\ t \in Range(organized.value.workspaceTasks)

\* C6: the workspace test is exact and case-sensitive: source absent and
\* source "Workspace" go to workspaceTasks, source "workspace" goes to
\* sourceGroups["workspace"] and not to workspaceTasks.
C6_WorkspaceRouting ==
    /\ \A t \in Range(tasks) :
        /\ t.source \in {Undefined, JsString("Workspace")} => isWorkspaceTask(t)
        /\ t.source = JsString("workspace") => ~isWorkspaceTask(t)
    /\ organized.kind = "returned" =>
        \A t \in Range(tasks) :
            /\ t.source \in {Undefined, JsString("Workspace")} =>
                /\ Count(organized.value.workspaceTasks, t) = Count(tasks, t)
                /\ ~InProviderBucket(organized.value, t)
            /\ t.source = JsString("workspace") =>
                /\ t \notin Range(organized.value.workspaceTasks)
                /\ InSourceGroup(organized.value, "workspace", t)

\* C6 witness: a result returned for an input with a task of each of the
\* three kinds.
C6_Witness ==
    /\ organized.kind = "returned"
    /\ \E t \in Range(tasks) : t.source = Undefined
    /\ \E t \in Range(tasks) : t.source = JsString("Workspace")
    /\ \E t \in Range(tasks) : t.source = JsString("workspace")
    /\ "workspace" \in OwnKeys(organized.value.sourceGroups)

\* The subgroup of t's source named g holds t.
InSubGroup(o, t, g) ==
    /\ effectiveSource(t) \in OwnKeys(o.sourceGroups)
    /\ g \in OwnKeys(o.sourceGroups[effectiveSource(t)].subGroups)
    /\ t \in Range(o.sourceGroups[effectiveSource(t)].subGroups[g])

InDirectTasks(o, t) ==
    /\ effectiveSource(t) \in OwnKeys(o.sourceGroups)
    /\ t \in Range(o.sourceGroups[effectiveSource(t)].tasks)

HasStructuredGroup(t) == t.group.type = "object"
HasGroupId(t) == HasStructuredGroup(t) /\ Truthy(t.group.id)

\* C7: for a provider task a structured group without an id resolves to
\* "build", a structured group with an id to that id, the string "test" to
\* "test", and a task without a group field lands in the direct tasks list.
C7_GroupIdResolution ==
    /\ \A t \in Range(tasks) :
        /\ (HasStructuredGroup(t) /\ t.group.id = Undefined) =>
                extractTaskGroupName(t) = JsString("build")
        /\ HasGroupId(t) => extractTaskGroupName(t) = t.group.id
        /\ t.group = JsString("test") => extractTaskGroupName(t) = JsString("test")
        /\ t.group = Undefined => extractTaskGroupName(t) = Null
    /\ organized.kind = "returned" =>
        \A t \in Range(tasks) :
            ~isWorkspaceTask(t) =>
                /\ (HasStructuredGroup(t) /\ t.group.id = Undefined) =>
                        InSubGroup(organized.value, t, "build")
                /\ HasGroupId(t) => InSubGroup(organized.value, t, t.group.id.val)
                /\ t.group = JsString("test") => InSubGroup(organized.value, t, "test")
                /\ t.group = Undefined =>
                        /\ InDirectTasks(organized.value, t)
                        /\ \A g \in OwnKeys(organized.value.sourceGroups[
                                        effectiveSource(t)].subGroups) :
                                ~InSubGroup(organized.value, t, g)

\* C7 witness: a result returned for provider tasks with a structured group
\* without id, a structured group with an id, and no group.
C7_Witness ==
    /\ organized.kind = "returned"
    /\ \E t \in Range(tasks) :
        ~isWorkspaceTask(t) /\ HasStructuredGroup(t) /\ t.group.id = Undefined
    /\ \E t \in Range(tasks) : ~isWorkspaceTask(t) /\ HasGroupId(t)
    /\ \E t \in Range(tasks) : ~isWorkspaceTask(t) /\ t.group = Undefined

\* C8: organizeTasks never throws, whatever source strings and group shapes
\* the task descriptors carry.
C8_NeverThrows == organized.kind # "threw"

\* The effective source keys of the non-workspace tasks of ts.
ProviderSources(ts) == {effectiveSource(t) : t \in {x \in Range(ts) : ~isWorkspaceTask(x)}}

\* C9: after organizeTasks the keys of sourceGroups are exactly the effective
\* source keys of the non-workspace input tasks.
C9_SourceKeys ==
    organized # Pending =>
        /\ organized.kind = "returned"
        /\ OwnKeys(organized.value.sourceGroups) = ProviderSources(tasks)

\* C9, what the code does guarantee: in every result that organizeTasks
\* returns the keys of sourceGroups are exactly those source keys.
C9_SourceKeysWhenReturned ==
    organized.kind = "returned" =>
        OwnKeys(organized.value.sourceGroups) = ProviderSources(tasks)

\* C10: the keys of the map of createTaskStatuses are exactly the distinct
\* names of the input tasks.
C10_KeysAreTaskNames ==
    statuses.kind = "returned" =>
        OwnKeys(statuses.value) = Range(TaskNames(tasks))

\* The status a task descriptor is shown with.
ShownStatus(t) == renderedStatus(statuses.value, t.name)

\* C11: two task descriptors that share a name get the same status whatever
\* their sources; two tasks named "build" from different sources with one
\* execution referencing "build" are both running.
C11_NameCollision ==
    statuses.kind = "returned" =>
        /\ \A t, u \in Range(tasks) : t.name = u.name => ShownStatus(t) = ShownStatus(u)
        /\ \A t, u \in Range(tasks) :
            (/\ t.name = "build" /\ u.name = "build" /\ t.source # u.source
             /\ "build" \in ExecutionNameSet(executions))
                => ShownStatus(t) = "yellow" /\ ShownStatus(u) = "yellow"

\* C11 witness: the statuses of two "build" tasks of different sources with
\* one execution of "build" have been derived.
C11_Witness ==
    /\ statuses.kind = "returned"
    /\ Len(executions) = 1
    /\ "build" \in ExecutionNameSet(executions)
    /\ \E t, u \in Range(tasks) :
        t.name = "build" /\ u.name = "build" /\ t.source # u.source

\* C12: every value of the map of createTaskStatuses is 'yellow' or 'grey',
\* and no status indicator is rendered in the green or the red colour.
C12_OnlyYellowOrGrey ==
    statuses.kind = "returned" =>
        /\ \A k \in OwnKeys(statuses.value) : statuses.value[k] \in {"yellow", "grey"}
        /\ \A t \in Range(tasks) :
            statusColor(ShownStatus(t)) \notin {statusColor("green"), statusColor("red")}

\* C12 witness: a returned map with a running and an idle task.
C12_Witness ==
    /\ statuses.kind = "returned"
    /\ \E k \in OwnKeys(statuses.value) : statuses.value[k] = "yellow"
    /\ \E k \in OwnKeys(statuses.value) : statuses.value[k] = "grey"

\* C14: for lint (npm, group "test"), compile (npm), dev (no source) and one
\* execution of lint, workspaceTasks = [dev], sourceGroups = {npm: {tasks:
\* [compile], subGroups: {test: [lint]}}} and the statuses are {lint:
\* running, compile: idle, dev: idle}.
C14_Scenario == tasks = EndToEndTasks /\ executions = <<Execution("lint")>>

C14_EndToEnd ==
    C14_Scenario =>
        /\ organized # Pending =>
            organized = Returned(
                [workspaceTasks |-> <<EndToEndTasks[3]>>,
                 sourceGroups |->
                    [s \in {"npm"} |->
                        [tasks |-> <<EndToEndTasks[2]>>,
                         subGroups |-> [g \in {"test"} |-> <<EndToEndTasks[1]>>]]]])
        /\ statuses # Pending =>
            statuses = Returned(
                [n \in {"lint", "compile", "dev"} |->
                    IF n = "lint" THEN "yellow" ELSE "grey"])

\* C14 witness: both functions have been applied to the scenario.
C14_Witness == C14_Scenario /\ organized # Pending /\ statuses # Pending

-----------------------------------------------------------------------------
(* Properties of the view provider. *)

\* C15: under any interleaving of overlapping refreshes, every step that
\* changes the displayed view is the callback of one refresh assigning the
\* render of the tasks and statuses that same refresh captured when its fetch
\* resolved; and whenever all refreshes have completed and some refresh has
\* rendered, the displayed view is the render of the refresh whose callback
\* completed last (a refresh whose fetch failed or whose render threw assigns
\* nothing).
C15_LastWriteWins ==
    [][ /\ html' # html =>
              /\ timers # <<>>
              /\ LET refresh == refreshes[Head(timers)]
                     page == RenderOfSnapshot(refresh.tasks, refresh.executions,
                                              settings)
                 IN  page.kind = "returned" /\ html' = page.value
        /\ (AllRefreshesCompleted' /\ lastRender' # NoRender) =>
              html' = RenderOfSnapshot(lastRender'.tasks, lastRender'.executions,
                                       lastRender'.settings).value ]_vars

\* C15 witness: the view has been written, and two refreshes overlap with
\* different snapshots, both waiting for their callbacks.
C15_Witness ==
    /\ html # Blank
    /\ Len(timers) = 2
    /\ refreshes[timers[1]].statuses # refreshes[timers[2]].statuses
    /\ refreshes[timers[1]].tasks = refreshes[timers[2]].tasks

\* dispose() has been called after setupEventListeners registered the
\* listeners and started the interval: only then is the interval cleared.
DisposedAfterSetup == disposeCalled /\ pollInterval = "cleared"

\* A step starts a refreshTasks invocation: a slot begins to wait for its fetch.
RefreshStarted ==
    \E slot \in Slots :
        refreshes[slot] = Idle /\ refreshes'[slot] # Idle

\* C20: once dispose() has been called (with the listeners registered), no
\* step starts a refresh, and every disposable registered in
\* setupEventListeners has been disposed.
C20_DisposeReleasesEverything ==
    [][ DisposedAfterSetup =>
            /\ ~RefreshStarted
            /\ disposedDisposables' = Disposables ]_vars

\* C19: while the view is resolved, a task start or end event is eventually
\* followed by a render whose statuses come from an execution snapshot taken
\* at or after that event.  The event singled out is pending from the step
\* that raises it; it is served by the callback of a refresh whose fetch
\* resolved while it was pending.
C19_EventuallyRendered == (watch = "pending") ~> (watch = "served")

-----------------------------------------------------------------------------
(* Properties of the command handling. *)

\* The click followed is on a group button.
GroupClick == click # None /\ click.button.command.val \in GroupCommands

\* The message of the click has been handled to its end without a failure.
HandledWithoutFailure ==
    /\ click # None
    /\ pendingMessage = None
    /\ handler = HandlerIdle
    /\ notices = <<>>

\* The tasks the page shows in the group of a group button.
GroupTasksOf(page, button) ==
    CASE button.command.val = "runGroup" ->
            ElementsOf(page.workspaceGroups[button.group.val])
      [] button.command.val = "runSubGroup" ->
            ElementsOf(page.sourceGroups[button.source.val].subGroups[button.group.val])
      [] OTHER ->
            LET group == page.sourceGroups[button.source.val]
            IN  ElementsOf(group.tasks)
                \cup UNION {ElementsOf(group.subGroups[g]) : g \in OwnKeys(group.subGroups)}

\* C16: after a click on the run button of a group, once the confirmation is
\* skipped or answered 'Yes' and the handler has finished without a failure,
\* every task the page shows in that group has been executed (the page being
\* the render of the host's current list).
C16_GroupRunExecutesAll ==
    ( /\ GroupClick
      /\ HandledWithoutFailure
      /\ dialogs = <<>> \/ dialogs[1].result = "Yes"
      /\ lastRender.tasks = tasks )
    => \A task \in GroupTasksOf(html, click.button) : task \in ElementsOf(executed)

\* The click is gated: the setting that applies to the button was on when the
\* page was generated, and Shift is not held.
Gated == requireConfirmation(html, click.button) /\ ~click.shiftKey

\* C17: after a click on a group button with the applicable setting on and
\* without Shift, the group command reaches executeGroupRun, and any task is
\* executed, only after one dialog was shown and answered 'Yes'; with Shift
\* held or the setting off no dialog is shown and the group command itself is
\* posted and passed to executeGroupRun.
C17_ConfirmationGating ==
    GroupClick =>
        IF Gated
        THEN (groupRuns # <<>> \/ executed # <<>>) =>
                 (Len(dialogs) = 1 /\ dialogs[1].result = "Yes")
        ELSE /\ dialogs = <<>>
             /\ IF pendingMessage # None
                THEN pendingMessage = CommandMessage(click.button)
                ELSE groupRuns = <<CommandMessage(click.button)>>

\* C17 witness: a gated click whose dialog was answered 'Yes', after which
\* the group command reached executeGroupRun.
C17_Witness ==
    /\ GroupClick /\ Gated
    /\ Len(dialogs) = 1 /\ dialogs[1].result = "Yes"
    /\ groupRuns = <<CommandMessage(click.button)>>

\* The click followed is on the run, or the stop, button of a task.
RunTaskClick == click # None /\ click.button.command = JsString("runTask")
TerminateTaskClick == click # None /\ click.button.command = JsString("terminateTask")

\* The executions whose task has the name on the button clicked.
ExecutionsNamed ==
    LET named(te) == te.task.name = click.button.task.val
    IN  SelectSeq(executions, named)

\* C18: a runTask message with a name executes nothing or exactly the first
\* task of that name in the host's list at the time of the fetch, and that
\* task whenever the handler finishes without a failure; it terminates
\* nothing.  A terminateTask message with a name terminates exactly the
\* active executions whose task has that name, and executes nothing.
C18_RunAndStop ==
    /\ RunTaskClick =>
          LET name == click.button.task.val
              IsFirstNamed(i) ==
                  /\ tasks[i].name = name
                  /\ \A j \in 1..(i - 1) : tasks[j].name # name
          IN  /\ \/ executed = <<>>
                 \/ \E i \in DOMAIN tasks : IsFirstNamed(i) /\ executed = <<tasks[i]>>
              /\ HandledWithoutFailure =>
                    (executed = <<>> <=> \A i \in DOMAIN tasks : tasks[i].name # name)
              /\ terminated = <<>>
    /\ TerminateTaskClick =>
          /\ executed = <<>>
          /\ terminated = IF pendingMessage = None THEN ExecutionsNamed ELSE <<>>

\* C18 witness: the run button of dev is clicked on a page rendered from
\* another list; the host's list has two tasks named dev and the first one,
\* of source npm, has been executed.
C18_Witness ==
    /\ RunTaskClick
    /\ lastRender.tasks # tasks
    /\ Len(SelectSeq(tasks, LAMBDA task : task.name = click.button.task.val)) = 2
    /\ executed = <<ProviderTask("dev", JsString("npm"), Undefined, "npm")>>

-----------------------------------------------------------------------------
(* Properties of the classifier: empty group values. *)

\* The task is in no subgroup of its source.
InNoSubGroup(o, t) ==
    \A g \in OwnKeys(o.sourceGroups[effectiveSource(t)].subGroups) :
        ~InSubGroup(o, t, g)

\* C22 as stated: a provider task is in the direct tasks list only when its
\* group is absent; a string group s, the empty string included, puts it in
\* subGroups[s]; a structured group puts it in subGroups[id], the empty id
\* included, or in subGroups["build"] when it has no id.
C22_AsStated ==
    organized.kind = "returned" =>
        \A t \in Range(tasks) :
            ~isWorkspaceTask(t) =>
                /\ InDirectTasks(organized.value, t) <=> t.group = Undefined
                /\ t.group.type = "string" =>
                        InSubGroup(organized.value, t, t.group.val)
                /\ (HasStructuredGroup(t) /\ t.group.id.type = "string") =>
                        InSubGroup(organized.value, t, t.group.id.val)
                /\ (HasStructuredGroup(t) /\ t.group.id = Undefined) =>
                        InSubGroup(organized.value, t, "build")

\* C22 amended: the empty string counts as absent.  A provider task is in the
\* direct tasks list, and in no subgroup, exactly when its group is absent or
\* the empty string; a non-empty string s puts it in subGroups[s]; a
\* structured group puts it in subGroups[id] when the id is a non-empty
\* string and in subGroups["build"] when the id is absent or empty.
C22_EmptyCountsAsAbsent ==
    /\ \A t \in Range(tasks) :
        /\ t.group \in {Undefined, JsString("")} => extractTaskGroupName(t) = Null
        /\ (HasStructuredGroup(t) /\ ~Truthy(t.group.id)) =>
                extractTaskGroupName(t) = JsString("build")
    /\ organized.kind = "returned" =>
        \A t \in Range(tasks) :
            ~isWorkspaceTask(t) =>
                /\ InDirectTasks(organized.value, t)
                        <=> t.group \in {Undefined, JsString("")}
                /\ InDirectTasks(organized.value, t) => InNoSubGroup(organized.value, t)
                /\ (t.group.type = "string" /\ t.group.val # "") =>
                        InSubGroup(organized.value, t, t.group.val)
                /\ HasGroupId(t) => InSubGroup(organized.value, t, t.group.id.val)
                /\ (HasStructuredGroup(t) /\ ~Truthy(t.group.id)) =>
                        InSubGroup(organized.value, t, "build")

\* C22 witness: a result returned for a provider task whose group is the
\* empty string, now in the direct tasks, and a provider task whose group id
\* is the empty string, now in subGroups["build"].
C22_Witness ==
    /\ organized.kind = "returned"
    /\ \E t \in Range(tasks) :
        /\ ~isWorkspaceTask(t) /\ t.group = JsString("")
        /\ InDirectTasks(organized.value, t)
    /\ \E t \in Range(tasks) :
        /\ ~isWorkspaceTask(t) /\ HasStructuredGroup(t) /\ t.group.id = JsString("")
        /\ InSubGroup(organized.value, t, "build")

-----------------------------------------------------------------------------
(* Properties of the page: counts and group selection. *)

\* The number of tasks in the subgroups of a source group.
RECURSIVE SubGroupTaskCount(_, _)
SubGroupTaskCount(group, names) ==
    IF names = {} THEN 0
    ELSE LET g == CHOOSE x \in names : TRUE
         IN  Len(group.subGroups[g]) + SubGroupTaskCount(group, names \ {g})

\* The number of tasks shown under a source group: direct and in subgroups.
SourceTaskCount(group) ==
    Len(group.tasks) + SubGroupTaskCount(group, OwnKeys(group.subGroups))

\* A count the page shows is the number n.
ShowsNothingOr(display, n) == display.shown => display.count = n

\* C21: with showTaskCounts on, the count shown next to a workspace group, a
\* provider subgroup and a source group is the number of tasks in it; for a
\* source group that is its direct tasks plus all tasks of its subgroups.
C21_CountsAreTaskCounts ==
    (organized.kind = "returned" /\ settings.showTaskCounts) =>
        LET o == organized.value
            grouped == workspaceGroupsFrom(o.workspaceTasks, 1, EmptyObject, <<>>)
        IN  /\ grouped.kind = "returned" =>
                  \A g \in OwnKeys(grouped.value.workspaceGroups) :
                      ShowsNothingOr(
                          taskCountDisplay(settings,
                              Len(grouped.value.workspaceGroups[g])),
                          Len(grouped.value.workspaceGroups[g]))
            /\ \A s \in OwnKeys(o.sourceGroups) :
                  /\ \A g \in OwnKeys(o.sourceGroups[s].subGroups) :
                        ShowsNothingOr(
                            taskCountDisplay(settings,
                                Len(o.sourceGroups[s].subGroups[g])),
                            Len(o.sourceGroups[s].subGroups[g]))
                  /\ ShowsNothingOr(
                        taskCountDisplay(settings,
                            sourceTotalCount(o.sourceGroups[s])),
                        SourceTaskCount(o.sourceGroups[s]))

-----------------------------------------------------------------------------
(* Properties of a refresh: order of its effects, failures. *)

FetchRejectedStep ==
    \E slot \in Slots :
        refreshes[slot].pc = "fetching" /\ refreshes'[slot] = Idle

\* C24: a refresh whose fetch fails posts no 'preserveState', schedules no
\* callback, leaves the displayed HTML as it is and returns normally; and no
\* failure while a fetched snapshot is computed or rendered is left unhandled.
C24_FailuresAreContained ==
    [][ /\ FetchRejectedStep => (html' = html /\ timers' = timers)
        /\ ~unhandled' ]_vars

-----------------------------------------------------------------------------
(* Properties of a group run. *)

\* The tasks getTasksForGroup selects for the group message being run.
SelectedForRun ==
    getTasksForGroup(tasks, groupRuns[1].command.val, groupRuns[1].name.val)

IsPrefixOf(short, long) ==
    /\ Len(short) <= Len(long)
    /\ \A i \in DOMAIN short : short[i] = long[i]

\* C25: executeGroupRun starts the selected tasks one at a time in the order
\* of the fetched list, the next one only after the start of the previous one
\* has resolved; when a start fails no later task is started, one error
\* message naming the group is shown and the handler's own error message is
\* not; without a failure all selected tasks are started.
C25_SequentialGroupRun ==
    (Len(groupRuns) = 1 /\ Truthy(groupRuns[1].name)) =>
        /\ IsPrefixOf(executed, SelectedForRun)
        /\ handler.pc = "executeTask" =>
              /\ executed \o handler.queue = SelectedForRun
              /\ notices = <<>>
        /\ notices # <<>> =>
              /\ handler = HandlerIdle
              /\ notices = <<"Failed to run group \""
                                \o groupRuns[1].name.val \o "\"">>
        /\ (handler = HandlerIdle /\ notices = <<>>) => executed = SelectedForRun

\* C25 witness: a group run of several tasks in which the first start
\* resolved and the second failed; the error message has been shown.
C25_Witness ==
    /\ Len(groupRuns) = 1 /\ Truthy(groupRuns[1].name)
    /\ Len(SelectedForRun) >= 2
    /\ Len(executed) = 1
    /\ notices # <<>>
    /\ handler = HandlerIdle

-----------------------------------------------------------------------------
(* Properties relating the group selection to the groups on display. *)

\* The names a group message could carry for a button: the group and the
\* source the button was rendered with.
GroupNamesOf(button) ==
    {attribute.val : attribute \in {button.group, button.source} \ {Null}}

\* The selection of getTasksForGroup for a button's command, under one of
\* the names of the button, is the set of tasks the page shows in its group.
SelectsWhatIsShown(page, button) ==
    \E groupName \in GroupNamesOf(button) :
        ElementsOf(getTasksForGroup(tasks, button.command.val, groupName))
            = GroupTasksOf(page, button)

\* C26: on a page rendered from the host's current list, for every group
\* button the tasks getTasksForGroup selects from that list are exactly the
\* tasks the page shows in the button's group.
C26_SelectionMatchesDisplay ==
    lastRender.tasks = tasks =>
        \A button \in WorkspaceGroupButtons(html) \cup SubGroupButtons(html)
                        \cup SourceGroupButtons(html) :
            SelectsWhatIsShown(html, button)

=============================================================================
